---- MODULE Spec2Model ----
(***************************************************************************)
(* Model of package turnservicecli: the TURNService credential cache       *)
(* (turnservice.go), its background refresh goroutine, and the             *)
(* self-expiring CachedCredentialsData instances it hands out.             *)
(*                                                                         *)
(* Granularity: one action per critical section or blocking point.  The    *)
(* service RWMutex is the variable mu (its write holder); read-locked      *)
(* sections and the short write-locked methods run as one step guarded by  *)
(* mu = NoProc.  Credentials keeps the write lock from its Lock() call to  *)
(* the deferred Unlock() at return, across the network request.            *)
(* The goroutines that call Credentials are the processes Users and the    *)
(* refresh goroutine Loop; the short methods (Open, Close, Autorefresh,    *)
(* BindOnCredentials, CachedCredentialsData.Close) can be called by any    *)
(* goroutine of the application at any time.                               *)
(***************************************************************************)
EXTENDS Integers, FiniteSets, TLC

\* ------------------------------------------------------------------ bounds
MaxCreds == 2       \* CachedCredentialsData instances ever created
MaxFetches == 2     \* fetchCredentials invocations ever made
MaxHandlers == 1    \* handlers ever registered with BindOnCredentials
MaxTTL == 120       \* largest TTL drawn in the expiry-arithmetic specification

Users == {"u1"}                \* application goroutine calling Credentials
Loop == "loop"                 \* the goroutine started by NewTURNService
Procs == Users \cup {Loop}
App == "app"                   \* lock holder during BindOnCredentials
NoProc == "none"

\* Arguments the application passes to Open, and what the server answers.
OpenArgs == { <<"tok", "cid", "">> }
ServerSessions == {"srv"}
TTLs == {100}
Percentiles == {0}             \* expirationPercentile handed to NewTURNService
ExpiryPercentiles == 0..99     \* the same, in the expiry-arithmetic specification

\* ------------------------------------------------------------- constants
DefaultPercentile == 80
RefreshCap == 1                \* refresh: make(chan bool, 1)

Nil == 0                       \* the nil *CachedCredentialsData
CredIds == 1..MaxCreds
NoErr == "nil"

VARIABLES
    \* TURNService fields
    expirationPercentile, session, accessToken, clientID,
    credentials, err, autorefresh, handlers, refresh, quit,
    mu,             \* write holder of the embedded sync.RWMutex
    \* heap of CachedCredentialsData instances and their timer goroutines
    creds,
    \* goroutines calling Credentials: position, argument and locals
    pc, local,
    \* environment and observation
    last,           \* the most recent return of Credentials: the value
                    \* returned and the number of handler goroutines started
    held,           \* instances handed to the application so far
    fetchCalls,     \* number of fetchCredentials invocations so far
    panicked        \* an unrecovered panic ended the process

vars == << expirationPercentile, session, accessToken, clientID, credentials,
           err, autorefresh, handlers, refresh, quit, mu, creds, pc, local,
           last, held, fetchCalls, panicked >>

\* the TURNService fields, and what the model observes of the calls
svc == << expirationPercentile, session, accessToken, clientID, credentials,
          err, autorefresh, handlers, refresh, quit >>
obs == << last, held, fetchCalls, panicked >>

\* -------------------------------------------------- CachedCredentialsData
\* One instance: Turn.TTL, the duration its timer goroutine sleeps, the two
\* flags, whether the quit channel is closed, and the goroutine's position.
NoCred == [made |-> FALSE, ttl |-> 0, expiry |-> 0, expired |-> FALSE,
           closed |-> FALSE, quit |-> FALSE, timer |-> "none"]

\* expiry := turn.TTL / 100 * int64(expirationPercentile)
TimerExpiry(ttl, percentile) == (ttl \div 100) * percentile

NewCachedCredentialsData(ttl, percentile) ==
    [made |-> TRUE, ttl |-> ttl, expiry |-> TimerExpiry(ttl, percentile),
     expired |-> FALSE, closed |-> FALSE, quit |-> FALSE, timer |-> "armed"]

\* Fault variant of Expired: an instance closed after its timer fired is
\* reported as not expired.
ExpiredUnlessClosed(d) == d.expired /\ ~d.closed

\* return c.expired || c.closed
Expired(d) == d.expired \/ d.closed

\* The goroutine leaves its select (quit closed, or the time is up) and sets
\* c.expired under the instance lock.
TimerFired(d) == [d EXCEPT !.expired = TRUE, !.timer = "exited"]

\* close(c.quit) on a channel that is already closed panics.
ClosePanics(d) == ~d.expired /\ d.quit

\* Fault variant of CachedClose: only the channel is closed, and expiry is
\* left to the timer goroutine.
CachedCloseChannelOnly(d) == [d EXCEPT !.quit = (@ \/ ~d.expired)]

\* if !c.expired { close(c.quit) }; c.closed = true
CachedClose(d) == [d EXCEPT !.quit = (@ \/ ~d.expired), !.closed = TRUE]

\* --------------------------------------------------------- TURNService
\* if expirationPercentile == 0 { expirationPercentile = 80 }
NewTURNServicePercentile(p) == IF p = 0 THEN DefaultPercentile ELSE p

\* A *CredentialsResponse: nil, or the decoded Turn.TTL and Session.
NoResp == [nil |-> TRUE, ttl |-> 0, session |-> ""]
Resp(t, s) == [nil |-> FALSE, ttl |-> t, session |-> s]

\* Fault variant of fetchCredentials: the identity is not checked before the
\* request is sent.
fetchCredentialsUnchecked(at, cid, sess) ==
    { [response |-> NoResp, err |-> "request"] }
    \cup { [response |-> Resp(t, s), err |-> e] :
             t \in TTLs, s \in ServerSessions, e \in {"integrity", NoErr} }

\* The possible results (response, err) of fetchCredentials for the identity
\* the caller copied.  Without accessToken and clientID it fails before any
\* request; a request fails with a nil response (transport, status, decode),
\* fails with a response (success=false, nonce mismatch), or succeeds.
fetchCredentials(at, cid, sess) ==
    IF at = "" /\ cid = ""
    THEN { [response |-> NoResp, err |-> "config"] }
    ELSE { [response |-> NoResp, err |-> "request"] }
         \cup { [response |-> Resp(t, s), err |-> e] :
                  t \in TTLs, s \in ServerSessions, e \in {"integrity", NoErr} }

\* Credentials' argument and locals.  The identity copies are kept only in a
\* call that can use them (fetch=true).  seen is what the call found cached
\* when it read the fields, seenExpired whether that was expired then (kept
\* for fetch=false), since the value of fetchCalls at that moment (kept for
\* fetch=true).
NoLocal == [fetch |-> FALSE, credentials |-> Nil, accessToken |-> "",
            clientID |-> "", session |-> "", seen |-> Nil,
            seenExpired |-> FALSE, since |-> 0]

\* The identity copies are not read again once the call is past its fetch.
Unused(l) == [l EXCEPT !.accessToken = "", !.clientID = "", !.session = ""]

NoLast == [ret |-> Nil, n |-> 0]
NoPanic == ""

InCall == {"read", "expired", "lock1", "lock2", "fetch1", "fetch2", "handlers"}
Home(p) == IF p = Loop THEN "select" ELSE "idle"

\* The state NewTURNService(uri, x, tlsConfig) returns, for x in P.
InitFor(P) ==
    /\ expirationPercentile \in { NewTURNServicePercentile(x) : x \in P }
    /\ session = "" /\ accessToken = "" /\ clientID = ""
    /\ credentials = Nil /\ err = NoErr /\ autorefresh = FALSE
    /\ handlers = 0 /\ refresh = 0 /\ quit = FALSE
    /\ mu = NoProc
    /\ creds = [c \in CredIds |-> NoCred]
    /\ pc = [p \in Procs |-> Home(p)]
    /\ local = [p \in Procs |-> NoLocal]
    /\ last = NoLast /\ held = {}
    /\ fetchCalls = 0
    /\ panicked = NoPanic

Init == InitFor(Percentiles)

Running == panicked = NoPanic

\* ------------------------------------------------ Credentials(fetch)
\* Entry: a user goroutine calls Credentials(f).
Call(p, f) ==
    /\ Running /\ p \in Users /\ pc[p] = "idle"
    /\ pc' = [pc EXCEPT ![p] = "read"]
    /\ local' = [local EXCEPT ![p] = [NoLocal EXCEPT !.fetch = f]]
    /\ UNCHANGED << svc, mu, creds, obs >>

\* Where Credentials goes after the read-locked copy of the fields.
AfterRead(cur, f) ==
    IF cur = Nil THEN (IF f THEN "lock1" ELSE "return") ELSE "expired"

\* RLock; copy credentials, accessToken, clientID, session; RUnlock.  With no
\* credentials and fetch=false the call returns nil at once, before the
\* handler loop.
Read(p) ==
    /\ Running /\ pc[p] = "read" /\ mu = NoProc
    /\ LET f == local[p].fetch
           nxt == AfterRead(credentials, f) IN
       /\ pc' = [pc EXCEPT ![p] = IF nxt = "return" THEN Home(p) ELSE nxt]
       /\ local' = [local EXCEPT ![p] =
            IF nxt = "return" THEN NoLocal
            ELSE IF f
            THEN [@ EXCEPT !.credentials = credentials,
                           !.accessToken = accessToken,
                           !.clientID = clientID,
                           !.session = session,
                           !.seen = credentials,
                           !.since = fetchCalls]
            ELSE [@ EXCEPT !.credentials = credentials,
                           !.seen = credentials,
                           !.seenExpired = Expired(creds[credentials])]]
       /\ last' = IF nxt = "return"
                  THEN [ret |-> Nil, n |-> 0]
                  ELSE last
    /\ UNCHANGED << svc, mu, creds, held, fetchCalls, panicked >>

\* Fault variants of AfterExpired: the fetch argument is ignored and an
\* expired credential is always refetched; an expired credential is kept
\* instead of being dropped when fetch=false.
AfterExpiredRefetches(isExpired, f) == IF ~isExpired THEN "hit" ELSE "lock2"
AfterExpiredKeepsStale(isExpired, f) ==
    IF ~isExpired THEN "hit" ELSE IF f THEN "lock2" ELSE "hit"

\* Where Credentials goes after credentials.Expired() on its copy.
AfterExpired(isExpired, f) ==
    IF ~isExpired THEN "hit" ELSE IF f THEN "lock2" ELSE "drop"

\* if credentials.Expired() { if fetch {...} else { credentials = nil } }
CheckExpired(p) ==
    /\ Running /\ pc[p] = "expired"
    /\ LET nxt == AfterExpired(Expired(creds[local[p].credentials]), local[p].fetch) IN
       /\ pc' = [pc EXCEPT ![p] = IF nxt = "lock2" THEN "lock2" ELSE "handlers"]
       /\ local' = [local EXCEPT ![p] =
            IF nxt = "lock2" THEN @
            ELSE Unused([@ EXCEPT !.credentials = IF nxt = "drop" THEN Nil
                                                  ELSE @])]
    /\ UNCHANGED << svc, mu, creds, obs >>

\* Fault variants of NeedsFetch1: no second check under the write lock; the
\* second check fetches unless it finds an expired credential.
NeedsFetch1Always(cur) == TRUE
NeedsFetch1UnlessExpired(cur) ==
    cur = Nil \/ ~(creds[cur].expired \/ creds[cur].closed)

\* if service.credentials == nil
NeedsFetch1(cur) == cur = Nil

\* if service.credentials == nil || service.credentials.Expired()
NeedsFetch2(cur) == cur = Nil \/ Expired(creds[cur])

\* Fault variant of LockAndCheck: the re-check and the fetch are made under
\* the read lock, which excludes no other caller.
LockAndCheckShared(p, at, needs) ==
    /\ Running /\ pc[p] = at /\ mu # App
    /\ IF needs
       THEN /\ fetchCalls < MaxFetches
            /\ pc' = [pc EXCEPT ![p] = IF at = "lock1" THEN "fetch1" ELSE "fetch2"]
            /\ fetchCalls' = fetchCalls + 1
            /\ UNCHANGED local
       ELSE /\ pc' = [pc EXCEPT ![p] = "handlers"]
            /\ local' = [local EXCEPT ![p] = Unused([@ EXCEPT !.credentials = credentials])]
            /\ UNCHANGED fetchCalls
    /\ UNCHANGED << svc, mu, creds, last, held, panicked >>

\* service.Lock(); re-check; either call fetchCredentials (the request is
\* then in flight with the lock held) or take over service.credentials.
\* The model follows at most MaxFetches invocations of fetchCredentials.
LockAndCheck(p, at, needs) ==
    /\ Running /\ pc[p] = at /\ mu = NoProc
    /\ mu' = p
    /\ IF needs
       THEN /\ fetchCalls < MaxFetches
            /\ pc' = [pc EXCEPT ![p] = IF at = "lock1" THEN "fetch1" ELSE "fetch2"]
            /\ fetchCalls' = fetchCalls + 1
            /\ UNCHANGED local
       ELSE /\ pc' = [pc EXCEPT ![p] = "handlers"]
            /\ local' = [local EXCEPT ![p] = Unused([@ EXCEPT !.credentials = credentials])]
            /\ UNCHANGED fetchCalls
    /\ UNCHANGED << svc, creds, last, held, panicked >>

\* Fault variant of Lock1: the second check looks at the caller's stale copy.
Lock1StaleCheck(p) ==
    LockAndCheck(p, "lock1", NeedsFetch1(local[p].credentials))

Lock1(p) == LockAndCheck(p, "lock1", NeedsFetch1(credentials))
Lock2(p) == LockAndCheck(p, "lock2", NeedsFetch2(credentials))

\* No-credentials branch: if err != nil { service.err = err }
RecordErr1(old, e) == IF e # NoErr THEN e ELSE old
\* Expired branch: service.err = err
RecordErr2(old, e) == e

\* Fault variant of Installs: any response object is installed.
InstallsAnyResponse(response, e) == ~response.nil

\* if response != nil && err == nil
Installs(response, e) == ~response.nil /\ e = NoErr

FreeIds == { c \in CredIds : ~creds[c].made }
NewId == CHOOSE c \in FreeIds : \A d \in FreeIds : c <= d

\* for _, h := range service.handlers: the number of handlers the loop sees.
\* Without the lock the read races with BindOnCredentials' append; a torn
\* slice header is the outcome -1.
HandlersSeen(p) ==
    IF mu = App /\ mu # p
    THEN {handlers, handlers + 1, -1}
    ELSE {handlers}

\* Lines 178-190 and the deferred Unlock: install a successful response,
\* start one goroutine per handler with (credentials, err), return.
Complete(p, response, e, n) ==
    LET inst == Installs(response, e)
        result == IF inst THEN NewId ELSE local[p].credentials
    IN
    /\ IF inst
       THEN /\ creds' = [creds EXCEPT ![NewId] =
                    NewCachedCredentialsData(response.ttl, expirationPercentile)]
            /\ credentials' = NewId
            /\ session' = response.session
       ELSE UNCHANGED << creds, credentials, session >>
    /\ IF n < 0
       THEN /\ panicked' = "handlers"
            /\ UNCHANGED << pc, local, last, held, mu >>
       ELSE /\ last' = [ret |-> result, n |-> n]
            /\ pc' = [pc EXCEPT ![p] = Home(p)]
            /\ local' = [local EXCEPT ![p] = NoLocal]
            /\ held' = IF result # Nil /\ (p \in Users \/ n > 0)
                       THEN held \cup {result} ELSE held
            /\ mu' = IF mu = p THEN NoProc ELSE mu
            /\ UNCHANGED panicked

\* fetchCredentials returns while the caller holds the lock.
FetchReturns(p, out) ==
    /\ Installs(out.response, out.err) => FreeIds # {}
    /\ err' = IF pc[p] = "fetch1" THEN RecordErr1(err, out.err)
                                  ELSE RecordErr2(err, out.err)
    /\ \E n \in HandlersSeen(p) : Complete(p, out.response, out.err, n)
    /\ UNCHANGED << expirationPercentile, accessToken, clientID, autorefresh,
                    handlers, refresh, quit, fetchCalls >>

FetchReturn(p) ==
    /\ Running /\ pc[p] \in {"fetch1", "fetch2"}
    /\ \E out \in fetchCredentials(local[p].accessToken, local[p].clientID,
                                   local[p].session) : FetchReturns(p, out)

\* The paths that made no request: response == nil, err == nil.
Finish(p) ==
    /\ Running /\ pc[p] = "handlers"
    /\ \E n \in HandlersSeen(p) : Complete(p, NoResp, NoErr, n)
    /\ UNCHANGED << expirationPercentile, accessToken, clientID, err,
                    autorefresh, handlers, refresh, quit, fetchCalls >>

\* ------------------------------------------------ the other methods
Open(a) ==
    /\ Running /\ mu = NoProc
    /\ accessToken' = a[1] /\ clientID' = a[2] /\ session' = a[3]
    /\ UNCHANGED << expirationPercentile, credentials, err, autorefresh,
                    handlers, refresh, quit, mu, creds, pc, local, obs >>

\* close(service.quit) panics on the second Close; credentials.Close() may
\* panic as well, and then the fields below it are not reset.
Close ==
    /\ Running /\ mu = NoProc
    /\ IF quit
       THEN /\ panicked' = "TURNService.Close"
            /\ UNCHANGED << svc, creds >>
       ELSE /\ quit' = TRUE
            /\ IF credentials # Nil /\ ClosePanics(creds[credentials])
               THEN /\ panicked' = "CachedCredentialsData.Close"
                    /\ UNCHANGED << creds, accessToken, clientID, session >>
               ELSE /\ creds' = IF credentials = Nil THEN creds
                                 ELSE [creds EXCEPT ![credentials] = CachedClose(@)]
                    /\ accessToken' = "" /\ clientID' = "" /\ session' = ""
                    /\ UNCHANGED panicked
            /\ UNCHANGED << expirationPercentile, credentials, err,
                            autorefresh, handlers, refresh >>
    /\ UNCHANGED << mu, pc, local, last, held, fetchCalls >>

\* Fault variant of Send: the signal is queued even when one is pending.
SendQueued(r) == r + 1

\* select { case service.refresh <- true: default: } on a channel holding r
\* signals: the send is dropped when the buffer is full.
Send(r) == IF r < RefreshCap THEN r + 1 ELSE r

\* The select has a default case, so the send never blocks: the method is
\* guarded by the write lock only.
Autorefresh(b) ==
    /\ Running /\ mu = NoProc
    /\ b # autorefresh
    /\ autorefresh' = b
    /\ refresh' = IF b THEN Send(refresh) ELSE refresh
    /\ UNCHANGED << expirationPercentile, session, accessToken, clientID,
                    credentials, err, handlers, quit, mu, creds, pc, local,
                    obs >>

\* BindOnCredentials: Lock, then the append and the deferred Unlock.
BindLock ==
    /\ Running /\ mu = NoProc
    /\ handlers < MaxHandlers
    /\ mu' = App
    /\ UNCHANGED << svc, creds, pc, local, obs >>

BindAppend ==
    /\ Running /\ mu = App
    /\ handlers' = handlers + 1
    /\ mu' = NoProc
    /\ UNCHANGED << expirationPercentile, session, accessToken, clientID,
                    credentials, err, autorefresh, refresh, quit, creds,
                    pc, local, obs >>

\* ------------------------------------- CachedCredentialsData goroutines
\* The application closes an instance it was handed.
CredClose(c) ==
    /\ Running /\ c \in held
    /\ IF ClosePanics(creds[c])
       THEN panicked' = "CachedCredentialsData.Close" /\ UNCHANGED creds
       ELSE creds' = [creds EXCEPT ![c] = CachedClose(@)] /\ UNCHANGED panicked
    /\ UNCHANGED << svc, mu, pc, local, last, held, fetchCalls >>

TimerFire(c) ==
    /\ Running /\ creds[c].timer = "armed"
    /\ creds' = [creds EXCEPT ![c] = TimerFired(@)]
    /\ UNCHANGED << svc, mu, pc, local, obs >>

\* ------------------------------------------------ the refresh goroutine
\* (LoopWakeIdle is a fault variant of LoopWake: the flag is read and
\* Credentials is not called.)
\* After the select: RLock; autorefresh = service.autorefresh; RUnlock;
\* if autorefresh { service.Credentials(true) }.  The select and the read
\* are one step, taken when the read lock can be granted.
LoopWakeIdle == mu = NoProc /\ UNCHANGED << pc, local >>

LoopWake ==
    /\ mu = NoProc
    /\ IF autorefresh
       THEN /\ pc' = [pc EXCEPT ![Loop] = "read"]
            /\ local' = [local EXCEPT ![Loop] = [NoLocal EXCEPT !.fetch = TRUE]]
       ELSE UNCHANGED << pc, local >>

\* case <-service.quit: ticker.Stop(); return
LoopQuit ==
    /\ Running /\ pc[Loop] = "select" /\ quit
    /\ pc' = [pc EXCEPT ![Loop] = "stopped"]
    /\ UNCHANGED << svc, mu, creds, local, obs >>

\* case <-service.refresh:
LoopRefresh ==
    /\ Running /\ pc[Loop] = "select" /\ refresh > 0
    /\ refresh' = refresh - 1
    /\ LoopWake
    /\ UNCHANGED << expirationPercentile, session, accessToken, clientID,
                    credentials, err, autorefresh, handlers, quit, mu, creds,
                    obs >>

\* case <-ticker.C:  (Go picks any ready case, also when quit is closed)
LoopTick ==
    /\ Running /\ pc[Loop] = "select"
    /\ LoopWake
    /\ UNCHANGED << svc, mu, creds, obs >>

Next ==
    \/ \E p \in Users, f \in BOOLEAN : Call(p, f)
    \/ \E p \in Procs : Read(p)
    \/ \E p \in Procs : CheckExpired(p)
    \/ \E p \in Procs : Lock1(p)
    \/ \E p \in Procs : Lock2(p)
    \/ \E p \in Procs : FetchReturn(p)
    \/ \E p \in Procs : Finish(p)
    \/ \E a \in OpenArgs : Open(a)
    \/ Close
    \/ \E b \in BOOLEAN : Autorefresh(b)
    \/ BindLock
    \/ BindAppend
    \/ \E c \in CredIds : CredClose(c)
    \/ \E c \in CredIds : TimerFire(c)
    \/ LoopQuit
    \/ LoopRefresh
    \/ LoopTick

Spec == Init /\ [][Next]_vars

\* ------------------------------------ expiry arithmetic, on its own
\* The application builds one instance itself, for any TTL, with the
\* percentile of a service constructed with any percentile; its timer runs
\* and the application may close it.
NewCached(t) ==
    /\ Running /\ FreeIds = CredIds
    /\ creds' = [creds EXCEPT ![NewId] =
                    NewCachedCredentialsData(t, expirationPercentile)]
    /\ held' = held \cup {NewId}
    /\ UNCHANGED << svc, mu, pc, local, last, fetchCalls, panicked >>

InitExpiry == InitFor(ExpiryPercentiles)

NextExpiry ==
    \/ \E t \in 0..MaxTTL : NewCached(t)
    \/ \E c \in CredIds : TimerFire(c)
    \/ \E c \in CredIds : CredClose(c)

SpecExpiry == InitExpiry /\ [][NextExpiry]_vars

\* ------------------------------------ the refresh signal, on its own
\* A store that is never opened and whose ticker does not fire: the loop is
\* woken by the refresh channel only, and each of its Credentials(true)
\* calls finds no credential and makes one fetch, which fails for want of
\* an identity.  The application calls Credentials(false) only.
NextSignals ==
    \/ \E p \in Users : Call(p, FALSE)
    \/ \E p \in Procs : Read(p)
    \/ \E p \in Procs : Lock1(p)
    \/ \E p \in Procs : FetchReturn(p)
    \/ Close
    \/ \E b \in BOOLEAN : Autorefresh(b)
    \/ BindLock
    \/ BindAppend
    \/ LoopQuit
    \/ LoopRefresh

SpecSignals == Init /\ [][NextSignals]_vars

\* ------------------------------------ refresh under fair scheduling
\* A store that is opened and not closed, with no handlers bound, whose
\* server answers every request with a valid response: the only fetch that
\* fails is one made without identity.
FetchSucceeds(p) ==
    /\ Running /\ pc[p] \in {"fetch1", "fetch2"}
    /\ \E out \in fetchCredentials(local[p].accessToken, local[p].clientID,
                                   local[p].session) :
          /\ out.err \in {NoErr, "config"}
          /\ FetchReturns(p, out)

NextLive ==
    \/ \E p \in Users, f \in BOOLEAN : Call(p, f)
    \/ \E p \in Procs : Read(p)
    \/ \E p \in Procs : CheckExpired(p)
    \/ \E p \in Procs : Lock1(p)
    \/ \E p \in Procs : Lock2(p)
    \/ \E p \in Procs : FetchSucceeds(p)
    \/ \E p \in Procs : Finish(p)
    \/ \E a \in OpenArgs : Open(a)
    \/ Autorefresh(TRUE)
    \/ \E c \in CredIds : TimerFire(c)
    \/ LoopRefresh
    \/ LoopTick

\* The ticker fires and the loop goroutine runs; a goroutine inside
\* fetchCredentials or past it gets its answer and returns, releasing the
\* lock; sync.RWMutex does not starve the loop when it asks for the lock.
FairLive ==
    /\ WF_vars(LoopTick)
    /\ WF_vars(CheckExpired(Loop))
    /\ SF_vars(Read(Loop)) /\ SF_vars(Lock1(Loop)) /\ SF_vars(Lock2(Loop))
    /\ \A p \in Procs : WF_vars(FetchSucceeds(p)) /\ WF_vars(Finish(p))

SpecLive == Init /\ [][NextLive]_vars /\ FairLive

\* ------------------------------------------------------------ properties
\* Steps of goroutine p inside Credentials, and the step that returns.
Steps(p) == pc[p] \in InCall /\ pc'[p] # pc[p]
Returns(p) == pc[p] \in InCall /\ pc'[p] = Home(p)
Fetching(p) == pc[p] \in {"fetch1", "fetch2"}
NoneMade == \A c \in CredIds : ~creds[c].made

\* C1 as claimed: a caller that found no credential cached invokes the
\* fetcher only if no other caller has invoked it since it looked, whatever
\* the outcome of that other fetch.
C1_Original ==
    \A p \in Procs : pc[p] = "fetch1" => fetchCalls = local[p].since + 1

\* C1, amended: a caller that found no credential cached invokes the fetcher
\* only while no fetch has ever succeeded; after a failed fetch another
\* caller fetches again, after a successful one none does.
C1_OneSuccessfulFetch ==
    \A p \in Procs : pc[p] = "fetch1" => (credentials = Nil /\ NoneMade)

\* Two callers found nothing cached, the first one's fetch failed and the
\* second is now fetching as well.
C1_Witness ==
    \E p \in Procs : /\ pc[p] = "fetch1"
                      /\ fetchCalls = local[p].since + 2
                      /\ err # NoErr

\* C2: no step of a Credentials(false) call changes the number of
\* fetchCredentials invocations.
C2_NoFetchWithoutFlag ==
    [][\A p \in Procs : (Steps(p) /\ ~local[p].fetch) => fetchCalls' = fetchCalls]_vars

\* A Credentials(false) call that found an expired credential cached is
\* about to return, and a fetch has been made before.
C2_Witness ==
    \E p \in Procs : /\ pc[p] = "handlers" /\ ~local[p].fetch
                      /\ local[p].seenExpired /\ fetchCalls > 0

\* C3 as claimed: a returning Credentials call starts every registered
\* handler once if it made a fetch attempt, and none if it made no fetch
\* (stated for returns that do not race with BindOnCredentials).
C3_Original ==
    [][\A p \in Procs : (Returns(p) /\ mu # App) =>
          last'.n = (IF Fetching(p) THEN handlers ELSE 0)]_vars

\* C4 as claimed: after a fetch attempt LastError() is that attempt's error:
\* nil when the fetch succeeded (a new credential is current), the error
\* otherwise.
C4_Original ==
    [][\A p \in Procs : (Fetching(p) /\ Returns(p)) =>
          ((err' = NoErr) <=> (credentials' # credentials))]_vars

\* C5 as claimed: the timer of every instance is armed for
\* TTL * percentile / 100 seconds.
C5_Original ==
    \A c \in CredIds : creds[c].made =>
        creds[c].expiry = (creds[c].ttl * expirationPercentile) \div 100

\* C6: once Expired() is true of an instance it is true in every later
\* state.
C6_ExpiredMonotonic ==
    [][\A c \in CredIds : Expired(creds[c]) => Expired(creds'[c])]_vars

\* An instance whose timer fired and which was closed as well.
C6_Witness ==
    \E c \in CredIds : creds[c].expired /\ creds[c].closed

\* C7: every instance handed out that is not expired is the store's current
\* credential; so two calls that return non-expired credentials return
\* the same instance unless a fetch replaced the current one in between.
C7_SameInstance ==
    \A c \in held : ~Expired(creds[c]) => c = credentials

\* A second instance is current and not expired, while the application
\* still holds the first; a call has just returned the current one.
C7_Witness ==
    /\ Cardinality(held) = 2
    /\ credentials \in held /\ ~Expired(creds[credentials])
    /\ last.ret = credentials

\* C8: a Credentials(false) call never changes service.credentials; it
\* returns nil at once exactly when nothing is cached; otherwise it returns
\* nil if what it found cached was expired, and what it found cached if
\* that is (still) not expired.
C8_ReadOnly ==
    [][\A p \in Procs : (Steps(p) /\ ~local[p].fetch) =>
          /\ credentials' = credentials
          /\ pc[p] = "read" =>
                ((credentials = Nil) <=> Returns(p)) /\ (Returns(p) => last'.ret = Nil)
          /\ (pc[p] = "handlers" /\ Returns(p)) =>
                /\ last'.ret \in {Nil, local[p].seen}
                /\ local[p].seenExpired => last'.ret = Nil
                /\ ~Expired(creds[local[p].seen]) => last'.ret = local[p].seen]_vars

\* A Credentials(false) call found an expired credential cached and is
\* about to return nil, with that credential still current.
C8_Witness ==
    \E p \in Procs : /\ pc[p] = "handlers" /\ ~local[p].fetch
                      /\ local[p].credentials = Nil
                      /\ local[p].seen = credentials /\ credentials # Nil

\* C9 as claimed: once Close() has returned and until Open() is called, the
\* store holds no non-expired credential and its session is empty.
C9_Original ==
    (Running /\ quit /\ accessToken = "" /\ clientID = "") =>
        /\ session = ""
        /\ credentials = Nil \/ Expired(creds[credentials])

\* C10 as claimed: Close() on an instance whose Expired() is already true
\* never panics.  (close(c.quit) can only panic on an instance that was
\* closed before, and of such an instance Expired() is true.)
C10_Original == panicked # "CachedCredentialsData.Close"

\* The loop starts a call of Credentials(true).
LoopAttempts == pc[Loop] = "select" /\ pc'[Loop] = "read"

\* C11 as claimed: however Autorefresh is toggled, the loop makes at most
\* one immediate refresh attempt.  (Under SpecSignals every attempt of the
\* loop is immediate and makes one fetch, so fetchCalls counts them.)
C11_Original == fetchCalls <= 1

\* C11, amended: at most RefreshCap = 1 signal is pending; a signal is added
\* only by a toggle from off to on; a signal is removed only by the loop,
\* and each immediate attempt of the loop removes one; Autorefresh can
\* always run when the lock is free, whatever the channel holds.
C11_SignalsCoalesce ==
    [][/\ refresh' \in 0..RefreshCap
       /\ refresh' > refresh =>
             (~autorefresh /\ autorefresh' /\ refresh' = refresh + 1)
       /\ refresh' < refresh =>
             (pc[Loop] = "select" /\ refresh' = refresh - 1)
       /\ LoopAttempts => refresh' = refresh - 1
       /\ (Running /\ mu = NoProc) => ENABLED Autorefresh(~autorefresh)]_vars

\* The loop is in its second immediate attempt and a further signal is
\* pending already.
C11_Witness ==
    /\ pc[Loop] = "fetch1" /\ fetchCalls = 2
    /\ autorefresh /\ refresh = RefreshCap

\* What fetchCredentials can return to p, which is inside it.
Outcomes(p) == fetchCredentials(local[p].accessToken, local[p].clientID,
                                local[p].session)

\* C12: when a fetch returns an error to Credentials, with or without a
\* response object, the step that completes the call leaves the current
\* credential, every instance and the session as they are, records the
\* error as last error and changes no other field of the store.
C12_FailedFetchKeeps ==
    [][\A p \in Procs : Fetching(p) =>
          \A out \in Outcomes(p) :
             (out.err # NoErr /\ FetchReturns(p, out)) =>
                /\ credentials' = credentials /\ session' = session
                /\ creds' = creds
                /\ err' = out.err
                /\ UNCHANGED << expirationPercentile, accessToken, clientID,
                                autorefresh, handlers, refresh, quit >>]_vars

\* A fetch came back with a response object and an error while an expired
\* credential was cached: the credential and the session it came with are
\* still there.
C12_Witness ==
    /\ err = "integrity"
    /\ credentials # Nil /\ Expired(creds[credentials])
    /\ session \in ServerSessions

\* C13: a fetch made by Credentials(true) with an empty access token and an
\* empty client identifier has the configuration error as its only outcome
\* (no request is sent); the call records it as last error, installs
\* nothing, and returns nil if it had found no credential cached.
C13_ConfigError ==
    [][\A p \in Procs :
          (/\ Fetching(p) /\ Returns(p)
           /\ local[p].accessToken = "" /\ local[p].clientID = "") =>
             /\ \A out \in Outcomes(p) : out.response.nil /\ out.err = "config"
             /\ err' = "config"
             /\ credentials' = credentials /\ creds' = creds
             /\ session' = session
             /\ pc[p] = "fetch1" => last'.ret = Nil]_vars

\* A call on a store without identity has fetched, failed with the
\* configuration error and returned nil; nothing is cached.
C13_Witness ==
    /\ err = "config" /\ fetchCalls > 0
    /\ credentials = Nil /\ last.ret = Nil
    /\ accessToken = "" /\ clientID = ""

\* The store has a current credential that is not expired.
CurrentValid == credentials # Nil /\ ~Expired(creds[credentials])

\* C14: while the current credential is not expired, a Credentials(true)
\* call that takes the write lock makes no fetch and takes that credential
\* over; a call returning while the credential it found cached is still
\* current and not expired made no fetch (nor did anyone since it looked),
\* returns that credential and changes neither it nor which one is current.
C14_NoRefetchWhileValid ==
    [][\A p \in Procs : (local[p].fetch /\ CurrentValid) =>
          /\ (pc[p] \in {"lock1", "lock2"} /\ Steps(p)) =>
                /\ fetchCalls' = fetchCalls
                /\ pc'[p] = "handlers"
                /\ local'[p].credentials = credentials
          /\ (Returns(p) /\ local[p].seen = credentials) =>
                /\ pc[p] = "handlers"
                /\ fetchCalls' = fetchCalls /\ fetchCalls = local[p].since
                /\ last'.ret = credentials
                /\ credentials' = credentials /\ creds' = creds]_vars

\* The loop, woken with auto-refresh on, found the current credential not
\* expired and is about to return it without a fetch.
C14_Witness ==
    /\ pc[Loop] = "handlers" /\ autorefresh
    /\ CurrentValid /\ local[Loop].seen = credentials
    /\ local[Loop].credentials = credentials
    /\ fetchCalls = local[Loop].since

\* Goroutine p enters fetchCredentials in this step.
StartsFetch(p) == ~Fetching(p) /\ pc'[p] \in {"fetch1", "fetch2"}

\* C15 as claimed: a step that sets the identity changes neither the current
\* credential, nor any instance, nor the last error, the auto-refresh flag
\* or the handlers; and a fetch that starts while the store has the
\* identity set by Open is made with that identity.
C15_Original ==
    [][/\ (accessToken' # accessToken /\ accessToken' # "") =>
             UNCHANGED << credentials, creds, err, autorefresh, handlers >>
       /\ \A p \in Procs : (StartsFetch(p) /\ accessToken # "") =>
             /\ local[p].accessToken = accessToken
             /\ local[p].clientID = clientID]_vars

\* C16: when Close() on an instance returns, Expired() is true of it although
\* its timer goroutine has not moved; when the store's Close() returns, the
\* same holds of the current credential if there is one, which stays
\* current, and accessToken, clientID and session are empty.
C16_CloseExpires ==
    [][/\ \A c \in CredIds : (CredClose(c) /\ Running') =>
             /\ Expired(creds'[c])
             /\ creds'[c].timer = creds[c].timer
       /\ (Close /\ Running') =>
             /\ accessToken' = "" /\ clientID' = "" /\ session' = ""
             /\ credentials' = credentials
             /\ credentials # Nil =>
                   /\ Expired(creds'[credentials])
                   /\ creds'[credentials].timer = creds[credentials].timer]_vars

\* The store was closed with a credential current whose timer goroutine is
\* still waiting: the credential is expired and the identity is empty.
C16_Witness ==
    /\ Running /\ quit /\ accessToken = "" /\ clientID = "" /\ session = ""
    /\ credentials # Nil
    /\ creds[credentials].closed /\ creds[credentials].timer = "armed"

\* The loop has what it needs to refresh: auto-refresh is on, the store has
\* an identity, and the model can follow one more fetch and instance.
CanRefresh ==
    /\ autorefresh /\ accessToken # "" /\ clientID # ""
    /\ fetchCalls < MaxFetches /\ FreeIds # {}

\* C17: with auto-refresh on, an identity set, the store open and the
\* server answering, an expired current credential leads to a current
\* credential that is not expired.
C17_Refreshes ==
    (CanRefresh /\ credentials # Nil /\ Expired(creds[credentials]))
        ~> CurrentValid

\* The loop, woken with auto-refresh on, found the current credential
\* expired and is fetching its replacement with the store's identity.
C17_Witness ==
    /\ autorefresh /\ pc[Loop] = "fetch2"
    /\ credentials # Nil /\ Expired(creds[credentials])
    /\ local[Loop].accessToken # "" /\ FreeIds # {}

\* C18: service.credentials is replaced only by a goroutine that holds the
\* write lock inside its fetch, and only when there is no current credential
\* or the current one is expired; so of all instances the store has created
\* only the current one can be not expired.
C18_InstallOnlyWhenStale ==
    [][/\ credentials' # credentials =>
             /\ credentials = Nil \/ Expired(creds[credentials])
             /\ \E p \in Procs : mu = p /\ Fetching(p)
             /\ ~creds[credentials'].made /\ ~Expired(creds'[credentials'])
       /\ \A c \in CredIds :
             (creds'[c].made /\ ~Expired(creds'[c])) => c = credentials']_vars

\* Two callers found the same credential expired; one has replaced it and
\* the other now holds the lock and has taken the replacement over.
C18_Witness ==
    \E p \in Procs :
       /\ pc[p] = "handlers" /\ mu = p /\ local[p].fetch
       /\ local[p].seen # Nil /\ local[p].seen # credentials
       /\ local[p].credentials = credentials /\ CurrentValid

\* C19 as claimed: a call that found the cached credential expired and whose
\* fetch installs nothing does not return that credential; and a call that
\* saw no credential and finds an expired one under the write lock takes
\* nil, not that credential, as its result.
C19_Original ==
    [][\A p \in Procs :
          /\ (pc[p] = "fetch2" /\ Returns(p)) => last'.ret # local[p].seen
          /\ (/\ pc[p] = "lock1" /\ Steps(p)
              /\ credentials # Nil /\ Expired(creds[credentials])) =>
                local'[p].credentials = Nil]_vars

\* C20 as claimed: once Close() has returned (quit is closed) the loop does
\* not start another call of Credentials(true).
C20_Original == [][quit => ~LoopAttempts]_vars
====
